---- MODULE Spec2Model ----
(***************************************************************************)
(* swb: a static website builder.  For every configured site, main calls   *)
(* config.build(site), which first runs config.clean(site) (a walk of the  *)
(* destination tree that removes what has no counterpart in the source     *)
(* tree) and then walks the source tree, creating directories, building    *)
(* pages from the site's template and hard-linking resources.              *)
(*                                                                         *)
(* The file system is modelled as two trees per site (paths -> nodes) and  *)
(* one inode table shared by all trees, so that a hard link is two paths   *)
(* naming one inode.  A file name is a pair <<base, extension>>, a path is *)
(* a sequence of names relative to the tree's root (<<>> is the root).     *)
(* A template is a sequence of character tokens.                           *)
(***************************************************************************)
EXTENDS Integers, Sequences, FiniteSets, TLC

VARIABLES
    sites,      \* config.Sites: the site ids, in configuration order
    src,        \* src[s][p]: the node at path p under site s's SrcRoot
    dst,        \* dst[s][p]: the node at path p under site s's DstRoot
    ino,        \* the inode table: inode id -> [mtime, data]
    tpl,        \* the content of the template file (site.TplPath)
    runCmd,     \* config.RunCmd
    fault,      \* the one system call that fails with an I/O error, if any
    pc,         \* "idle" | "clean" | "walk": the position of main
    cur,        \* index in sites of the site being built
    exit,       \* how the last run ended: "none" | "ok" | "fatal" | "panic"
    events,     \* the lines printed by the current run, in order
    trace,      \* the steps (clean, walk) of the current run with their results
    now,        \* the clock: the modification time given to what is written
    runs,       \* number of runs started
    ops,        \* number of changes made by the user between runs
    pre,        \* the trees, inodes, template, user changes and last exit when the
                \* current run started
    lastOp      \* what the user changed since the previous run ended

vars == <<sites, src, dst, ino, tpl, runCmd, fault, pc, cur, exit, events,
          trace, now, runs, ops, pre, lastOp>>

(***************************************************************************)
(* Bounds of the model.                                                    *)
(***************************************************************************)
MaxRuns == 2
MaxOps == 1
MaxTplLines == 4

(***************************************************************************)
(* Names and paths.                                                        *)
(***************************************************************************)
\* config.Builder.Ext, as in the README's config.json
BuilderExt == ".md"

\* The extension build gives a built page and clean looks for
HtmlExt == ".html"

SiteIds == {1, 2}

\* The file names of the model, in the order os.ReadDir returns them
\* (sorted by filename): a.html < a.md < b < c.html < c.md < d < e.png
NameOrder ==
    << <<"a", ".html">>, <<"a", ".md">>, <<"b", "">>, <<"c", ".html">>,
       <<"c", ".md">>, <<"d", "">>, <<"e", ".png">> >>

TopNames ==
    { <<"a", ".html">>, <<"a", ".md">>, <<"b", "">>, <<"d", "">>, <<"e", ".png">> }

SubNames == { <<"c", ".html">>, <<"c", ".md">> }

Root == <<>>

Paths ==
    {Root} \cup { <<n>> : n \in TopNames }
           \cup { << <<"d", "">>, n >> : n \in SubNames }

\* filepath.Ext of a path: the extension of its last element
Ext(p) == IF p = Root THEN "" ELSE p[Len(p)][2]

\* strings.TrimSuffix(p, Ext(p)) + e
WithExt(p, e) == [p EXCEPT ![Len(p)] = <<p[Len(p)][1], e>>]

Parent(p) == SubSeq(p, 1, Len(p) - 1)

\* p is q or lies below q
Under(p, q) == Len(q) <= Len(p) /\ SubSeq(p, 1, Len(q)) = q

\* build's mapping of a source file to its destination path
BuildEqPath(p) == IF Ext(p) = BuilderExt THEN WithExt(p, HtmlExt) ELSE p

\* clean's mapping of a destination file to its source path
CleanEqPath(p) == IF Ext(p) = HtmlExt THEN WithExt(p, BuilderExt) ELSE p

(***************************************************************************)
(* Nodes and inodes.                                                       *)
(***************************************************************************)
NoIno == <<"none", 0, Root>>

SrcIno(s, p) == <<"src", s, p>>

DstIno(s, p) == <<"dst", s, p>>

InoIds == { <<k, s, p>> : k \in {"src", "dst"}, s \in SiteIds, p \in Paths }

NoNode == [kind |-> "none", ino |-> NoIno]

FileNode(i) == [kind |-> "file", ino |-> i]

DirNode(i) == [kind |-> "dir", ino |-> i]

EmptyTree == [p \in Paths |-> NoNode]

NoData == [kind |-> "none", ver |-> 0, body |-> <<>>]

RawData(v) == [kind |-> "raw", ver |-> v, body |-> <<>>]

PageData(b) == [kind |-> "page", ver |-> 0, body |-> b]

Inode(m, d) == [mtime |-> m, data |-> d]

\* The entries of directory p, as os.ReadDir lists them
ReadDir(tree, p) ==
    SelectSeq(NameOrder,
              LAMBDA n : Append(p, n) \in Paths /\ tree[Append(p, n)].kind # "none")

\* Every ancestor of p, the root included, is a directory
AncestorsAreDirs(tree, p) ==
    \A k \in 0..(Len(p) - 1) : tree[SubSeq(p, 1, k)].kind = "dir"

\* os.RemoveAll(p): p and everything below it
RemoveAll(tree, p) == [q \in Paths |-> IF Under(q, p) THEN NoNode ELSE tree[q]]

\* The single failing system call: none, or operation op on path p
NoFault == [op |-> "none", path |-> Root]

Fails(op, p) == fault.op = op /\ fault.path = p

(***************************************************************************)
(* buildPage: the expansion of the template.  A template is a sequence of  *)
(* tokens: "NL" is a newline, " " a blank, "%{" and "}%" the two markers,  *)
(* anything else a character of text.                                      *)
(***************************************************************************)
IsSpace(c) == c \in {" ", "NL"}

\* (?m)^ : at the start of the text or right after a newline
AtLineStart(t, i) == i = 1 \/ t[i - 1] = "NL"

\* \s* : the first position at or after i that holds no white space
FirstNonSpace(t, i) ==
    IF \E j \in i..Len(t) : ~IsSpace(t[j])
    THEN CHOOSE j \in i..Len(t) :
             /\ ~IsSpace(t[j])
             /\ \A h \in i..(j - 1) : IsSpace(t[h])
    ELSE Len(t) + 1

\* The closing markers after j that are the first content of their line,
\* leading blanks allowed
ClosePositionsIndented(t, j) ==
    { k \in (j + 1)..Len(t) :
        /\ t[k] = "}%"
        /\ \E i \in (j + 1)..k : t[i - 1] = "NL" /\ \A h \in i..(k - 1) : t[h] = " " }

\* (.*?)(?ms)^}% : the first "}%" after the opening marker at j that starts a line
ClosePositions(t, j) == { k \in (j + 1)..Len(t) : t[k] = "}%" /\ t[k - 1] = "NL" }

Min(S) == CHOOSE x \in S : \A y \in S : x <= y

\* The regexp (?ms)^\s*%{(.*?)(?ms)^}% tried at position i: whether it matches,
\* where its "%{" is (open) and where its "}%" is (close)
MatchFrom(t, i, j) ==
    IF /\ i <= Len(t)
       /\ AtLineStart(t, i)
       /\ j <= Len(t)
       /\ t[j] = "%{"
       /\ ClosePositions(t, j) # {}
    THEN [ok |-> TRUE, open |-> j, close |-> Min(ClosePositions(t, j))]
    ELSE [ok |-> FALSE, open |-> 0, close |-> 0]

MatchAt(t, i) == MatchFrom(t, i, FirstNonSpace(t, i))

\* The start of the leftmost match at or after pos, 0 when there is none
FindFrom(t, pos) ==
    IF \E i \in pos..Len(t) : MatchAt(t, i).ok
    THEN Min({ i \in pos..Len(t) : MatchAt(t, i).ok })
    ELSE 0

\* re.FindStringSubmatch(match): <<whole match, group 1>>, or <<>>
Submatches(m, i, r) == << SubSeq(m, i, r.close), SubSeq(m, r.open + 1, r.close - 1) >>

SubmatchAt(m, i) == IF i = 0 THEN <<>> ELSE Submatches(m, i, MatchAt(m, i))

FindStringSubmatch(m) == SubmatchAt(m, FindFrom(m, 1))

\* The environment given to a command (the bindings buildPage adds)
CmdEnv(s, srcPath, dstPath) ==
    [page_name |-> srcPath[Len(srcPath)][1], site_name |-> s,
     src_path |-> srcPath, dst_path |-> dstPath]

NoEnv == [page_name |-> "", site_name |-> 0, src_path |-> Root, dst_path |-> Root]

Lit(c) == [t |-> "lit", tok |-> c, argv |-> <<>>, env |-> NoEnv, input |-> 0]

\* What cmd.Run() of argv gives: the command's standard output, which stands
\* for itself (argv, environment, the version of the page's source it reads),
\* or the error of a command that exits with failure.  A command whose text
\* holds the token "f" exits with failure.
CmdFails(argv) == \E c \in 1..Len(argv[Len(argv)]) : argv[Len(argv)][c] = "f"

RunOutput(argv, env, input) ==
    IF CmdFails(argv)
    THEN [t |-> "err", tok |-> "", argv |-> argv, env |-> env, input |-> input]
    ELSE [t |-> "out", tok |-> "", argv |-> argv, env |-> env, input |-> input]

\* exec.Command(cmdArgs[0], cmdArgs[len(config.RunCmd)-1:]...): the argument
\* vector of the process, for cmdArgs = append(config.RunCmd, cmdStr)
CommandArgv(rc, cmdStr) ==
    LET cmdArgs == Append(rc, cmdStr)
    IN  <<cmdArgs[1]>> \o SubSeq(cmdArgs, Len(rc), Len(cmdArgs))

\* The function given to ReplaceAllStringFunc, applied to one match: the
\* items that replace it.  With an empty RunCmd the slice expression
\* cmdArgs[len(config.RunCmd)-1:] panics.
RunMatch(rc, match, submatches, env, input) ==
    IF Len(submatches) < 2
    THEN [panic |-> FALSE, items |-> [i \in 1..Len(match) |-> Lit(match[i])]]
    ELSE IF Len(rc) = 0
    THEN [panic |-> TRUE, items |-> <<>>]
    ELSE [panic |-> FALSE,
          items |-> << RunOutput(CommandArgv(rc, submatches[2]), env, input) >>]

ReplaceMatch(rc, match, env, input) ==
    RunMatch(rc, match, FindStringSubmatch(match), env, input)

\* re.ReplaceAllStringFunc(templateString, ...) from position pos on
Lits(t, from, to) == [h \in 1..(to - from + 1) |-> Lit(t[from + h - 1])]

\* The text before a match, what replaces the match, and the rest
Joined(before, rep, rest) ==
    [panic |-> rep.panic \/ rest.panic, items |-> before \o rep.items \o rest.items]

RECURSIVE ReplaceAll(_, _, _, _, _)
ReplaceFrom(t, pos, rc, env, input, i, close) ==
    IF i = 0
    THEN [panic |-> FALSE, items |-> Lits(t, pos, Len(t))]
    ELSE Joined(Lits(t, pos, i - 1),
                ReplaceMatch(rc, SubSeq(t, i, close), env, input),
                ReplaceAll(t, close + 1, rc, env, input))

ReplaceAt(t, pos, rc, env, input, i) ==
    ReplaceFrom(t, pos, rc, env, input, i, IF i = 0 THEN 0 ELSE MatchAt(t, i).close)

ReplaceAll(t, pos, rc, env, input) ==
    ReplaceAt(t, pos, rc, env, input, FindFrom(t, pos))

\* built, in buildPage
Expand(t, rc, env, input) == ReplaceAll(t, 1, rc, env, input)

(***************************************************************************)
(* System calls.  A walk threads a record st through its callbacks:        *)
(* st.src and st.dst are the two trees of the site, st.ino the inode       *)
(* table, st.ev the lines printed, st.seen the entries the callback was    *)
(* called for, st.failed the system calls that failed, st.ret what the     *)
(* callback returned ("nil", "err", or "panic" when the process died).     *)
(***************************************************************************)
\* The result of os.Stat(p): "nil", "enoent" (errors.Is(err, os.ErrNotExist))
\* or "other" (ENOTDIR below a file, or the injected I/O error)
StatErr(tree, p, op) ==
    IF Fails(op, p) THEN "other"
    ELSE IF \E k \in 0..(Len(p) - 1) :
                /\ tree[SubSeq(p, 1, k)].kind = "file"
                /\ \A h \in 0..(k - 1) : tree[SubSeq(p, 1, h)].kind = "dir"
    THEN "other"
    ELSE IF ~AncestorsAreDirs(tree, p) \/ tree[p].kind = "none" THEN "enoent"
    ELSE "nil"

\* A system call op on path p failed, while the callback was at its last entry
Failed(st, op, p) ==
    [st EXCEPT !.failed = Append(@, [op |-> op, path |-> p, entry |-> st.seen[Len(st.seen)]])]

\* The call failed and the callback returns its error
Erred(st, op, p) == [Failed(st, op, p) EXCEPT !.ret = "err"]

\* The call failed and its nil result is dereferenced
Crashed(st, op, p) == [Failed(st, op, p) EXCEPT !.ret = "panic"]

\* A printed line: its kind and path, and the entry the callback was at
Emit(s, st, phase, kind, p) ==
    [st EXCEPT !.ev = Append(@, [site |-> s, phase |-> phase, kind |-> kind, path |-> p,
                                 entry |-> st.seen[Len(st.seen)]])]

DirData == [kind |-> "dir", ver |-> 0, body |-> <<>>]

\* os.MkdirAll(p, 0755) in the destination tree: every missing directory down
\* to p is created; an existing non-directory on the way is an error
\* The prefixes of p that are files in the destination tree (their lengths)
FilesOnTheWay(st, p) == { k \in 0..Len(p) : st.dst[SubSeq(p, 1, k)].kind = "file" }

MakeDirs(s, st, made, ret) ==
    [st EXCEPT
        !.dst = [q \in Paths |->
                    IF q \in made /\ st.dst[q].kind = "none"
                    THEN DirNode(DstIno(s, q)) ELSE st.dst[q]],
        !.ino = [i \in InoIds |->
                    IF \E q \in made : st.dst[q].kind = "none" /\ i = DstIno(s, q)
                    THEN Inode(now, DirData) ELSE st.ino[i]],
        !.ret = ret]

MkdirUpTo(s, st, p, bad) ==
    IF bad = {}
    THEN MakeDirs(s, st, { SubSeq(p, 1, k) : k \in 0..Len(p) }, "nil")
    ELSE MakeDirs(s, Failed(st, "mkdir", p), { SubSeq(p, 1, k) : k \in 0..(Min(bad) - 1) }, "err")

MkdirAll(s, st, p) ==
    IF Fails("mkdir", p) THEN Erred(st, "mkdir", p)
    ELSE MkdirUpTo(s, st, p, FilesOnTheWay(st, p))

\* os.WriteFile(p, data, 0644) in the destination tree; buildPage drops its error
WriteFile(s, st, p, data) ==
    IF Fails("write", p) \/ ~AncestorsAreDirs(st.dst, p) THEN Failed(st, "write", p)
    ELSE IF st.dst[p].kind = "file"
    THEN [st EXCEPT !.ino[st.dst[p].ino] = Inode(now, data)]
    ELSE IF st.dst[p].kind = "none"
    THEN [st EXCEPT !.dst[p] = FileNode(DstIno(s, p)),
                    !.ino[DstIno(s, p)] = Inode(now, data)]
    ELSE Failed(st, "write", p)

\* os.Link(srcPath, dstPath)
Link(s, st, srcPath, dstPath) ==
    IF \/ Fails("link", dstPath)
       \/ ~AncestorsAreDirs(st.dst, dstPath)
       \/ st.dst[dstPath].kind # "none"
       \/ st.src[srcPath].kind # "file"
    THEN Erred(st, "link", dstPath)
    ELSE [st EXCEPT !.dst[dstPath] = FileNode(st.src[srcPath].ino)]

\* os.Remove(p) in the destination tree
Remove(s, st, p) ==
    IF \/ Fails("remove", p)
       \/ st.dst[p].kind = "none"
       \/ st.dst[p].kind = "dir" /\ ReadDir(st.dst, p) # <<>>
    THEN Erred(st, "remove", p)
    ELSE [st EXCEPT !.dst[p] = NoNode]

\* os.RemoveAll(p) in the destination tree; clean drops its error
CleanRemoveAll(s, st, p) ==
    IF Fails("removeall", p) THEN Failed(st, "removeall", p)
    ELSE [st EXCEPT !.dst = RemoveAll(st.dst, p)]

(***************************************************************************)
(* buildPage(site, srcPath, dstPath)                                       *)
(***************************************************************************)
WriteBuilt(s, st, dstPath, built) ==
    IF built.panic THEN [st EXCEPT !.ret = "panic"]
    ELSE WriteFile(s, st, dstPath, PageData(built.items))

BuildPage(s, st, srcPath, dstPath) ==
    IF Fails("readtpl", Root) THEN Erred(st, "readtpl", Root)
    ELSE WriteBuilt(s, st, dstPath,
                    Expand(tpl, runCmd, CmdEnv(s, srcPath, dstPath),
                           st.ino[st.src[srcPath].ino].data.ver))

(***************************************************************************)
(* The callback of build's walk of the source tree, for the entry at p.    *)
(***************************************************************************)
\* srcInfo.ModTime().After(dstInfo.ModTime())
After(st, srcPath, dstPath) ==
    st.ino[st.src[srcPath].ino].mtime > st.ino[st.dst[dstPath].ino].mtime

\* "return err" when the call failed, the printed line otherwise
Printed(s, r, kind, p) == IF r.ret # "nil" THEN r ELSE Emit(s, r, "build", kind, p)

LinkAfter(s, r, p, eqPath) == IF r.ret # "nil" THEN r ELSE Link(s, r, p, eqPath)

BuildStale(s, st, p, eqPath, e, kind) ==
    IF e = "other" THEN Failed(st, "stat_dst", eqPath)
    ELSE IF kind = "page"
    THEN IF e = "enoent" THEN Printed(s, BuildPage(s, st, p, eqPath), "+", eqPath)
         ELSE IF e = "nil" /\ After(st, p, eqPath)
         THEN Printed(s, BuildPage(s, st, p, eqPath), "^", eqPath)
         ELSE st
    ELSE IF e = "enoent" THEN Printed(s, Link(s, st, p, eqPath), "+", eqPath)
         ELSE IF e = "nil" /\ After(st, p, eqPath)
         THEN Printed(s, LinkAfter(s, Remove(s, st, eqPath), p, eqPath), "^", eqPath)
         ELSE st

BuildContent(s, st, p) ==
    BuildStale(s, st, p, WithExt(p, HtmlExt),
               StatErr(st.dst, WithExt(p, HtmlExt), "stat_dst"), "page")

BuildResource(s, st, p) ==
    BuildStale(s, st, p, p, StatErr(st.dst, p, "stat_dst"), "link")

BuildFn(s, st, p) ==
    IF p = Root THEN st
    ELSE IF st.src[p].kind = "dir" THEN MkdirAll(s, st, p)
    ELSE IF Fails("stat_src", p) THEN Erred(st, "stat_src", p)
    ELSE IF Ext(p) = BuilderExt THEN BuildContent(s, st, p)
    ELSE BuildResource(s, st, p)

(***************************************************************************)
(* The callback of clean's walk of the destination tree, for the entry at  *)
(* p.  When os.Stat of the mapped source path fails with an error that is  *)
(* not "does not exist", srcInfo (srcStat) is nil and is dereferenced.     *)
(***************************************************************************)
CleanDirOn(s, st, p, e) ==
    IF e = "other" THEN Crashed(st, "stat_src", p)
    ELSE IF e = "enoent" \/ st.src[p].kind # "dir"
    THEN Emit(s, CleanRemoveAll(s, st, p), "clean", "-*", p)
    ELSE st

CleanDir(s, st, p) == CleanDirOn(s, st, p, StatErr(st.src, p, "stat_src"))

\* The file branch without its test of the extension: the inodes are compared
\* for built documents too
CleanFileOnAnyExt(s, st, p, eqPath, e) ==
    IF e = "enoent"
    THEN Emit(s, CleanRemoveAll(s, st, p), "clean", "-", p)
    ELSE IF e = "other" THEN Crashed(st, "stat_src", eqPath)
    ELSE IF st.src[eqPath].ino # st.dst[p].ino
    THEN Emit(s, CleanRemoveAll(s, st, p), "clean", "-", p)
    ELSE st

CleanFileOn(s, st, p, eqPath, e) ==
    IF e = "enoent"
    THEN Emit(s, CleanRemoveAll(s, st, p), "clean", "-", p)
    ELSE IF Ext(p) = HtmlExt
    THEN (IF e = "other" THEN Failed(st, "stat_src", eqPath) ELSE st)
    ELSE IF e = "other" THEN Crashed(st, "stat_src", eqPath)
    ELSE IF st.src[eqPath].ino # st.dst[p].ino
    THEN Emit(s, CleanRemoveAll(s, st, p), "clean", "-", p)
    ELSE st

CleanFile(s, st, p) ==
    CleanFileOn(s, st, p, CleanEqPath(p), StatErr(st.src, CleanEqPath(p), "stat_src"))

CleanFn(s, st, p) ==
    IF p = Root THEN st
    ELSE IF st.dst[p].kind = "dir" THEN CleanDir(s, st, p)
    ELSE CleanFile(s, st, p)

(***************************************************************************)
(* filepath.WalkDir(root, fn): the entries in lexical order, a directory   *)
(* before its entries.  A directory is read after the callback returned    *)
(* nil for it; when it cannot be read the callback is called again with    *)
(* the error, and both callbacks return that error, which ends the walk.   *)
(***************************************************************************)
WalkTree(which, st) == IF which = "src" THEN st.src ELSE st.dst

WalkFn(which, s, st, p) ==
    IF which = "src" THEN BuildFn(s, st, p) ELSE CleanFn(s, st, p)

Entries(p, names) == [i \in 1..Len(names) |-> Append(p, names[i])]

\* The callback is called for entry p
Called(st, p) == [st EXCEPT !.seen = Append(@, p)]

RECURSIVE WalkRec(_, _, _, _)
\* After the callback on entry p gave st1: isDir is d.IsDir() of the entry
WalkOn(which, s, st1, p, isDir, rest) ==
    IF st1.ret # "nil" THEN st1
    ELSE IF ~isDir THEN WalkRec(which, s, st1, rest)
    ELSE IF WalkTree(which, st1)[p].kind # "dir"
    THEN [st1 EXCEPT !.ret = "err"]
    ELSE WalkRec(which, s, st1, Entries(p, ReadDir(WalkTree(which, st1), p)) \o rest)

WalkRec(which, s, st, todo) ==
    IF todo = <<>> THEN st
    ELSE WalkOn(which, s, WalkFn(which, s, Called(st, Head(todo)), Head(todo)), Head(todo),
                WalkTree(which, st)[Head(todo)].kind = "dir", Tail(todo))

WalkDir(which, s, st) ==
    IF WalkTree(which, st)[Root].kind = "none"
    THEN [st EXCEPT !.ret = "err"]
    ELSE WalkRec(which, s, st, <<Root>>)

Begin(s) ==
    [src |-> src[s], dst |-> dst[s], ino |-> ino, ev |-> <<>>, seen |-> <<>>,
     failed |-> <<>>, ret |-> "nil"]

\* config.clean(site)
CleanOf(s) == WalkDir("dst", s, Begin(s))

\* the walk of config.build(site), after its call of clean
WalkOf(s) == WalkDir("src", s, Begin(s))

(***************************************************************************)
(* The initial states: the configuration, and any source tree and any      *)
(* destination tree over the model's paths.  A source file was modified at *)
(* time 1 or 3, a destination file of its own (a page built earlier, or a  *)
(* file put there by hand) at time 2; the clock starts at 3.               *)
(***************************************************************************)
D == <<"d", "">>

OldData == [kind |-> "page", ver |-> 0, body |-> << Lit("old") >>]

\* The README's example: text, then a command block
Tpl0 == <<"x", "NL", "%{", "c", "NL", "}%", "NL">>

\* The template after the user modified it
Tpl1 == <<"y", "NL", "%{", "c", "NL", "}%", "NL">>

\* "runCmd": ["bash", "-c"]
BashC == << <<"bash">>, <<"-c">> >>

AHtml == << <<"a", ".html">> >>

AMd == << <<"a", ".md">> >>

EPng == << <<"e", ".png">> >>

DCMd == <<D, <<"c", ".md">> >>

DCHtml == <<D, <<"c", ".html">> >>

B == << <<"b", "">> >>

ShapeOf(ah, am, b, e, d, cm, ch) ==
    [p \in Paths |->
        IF p = Root THEN "dir"
        ELSE IF p = AHtml THEN ah
        ELSE IF p = AMd THEN am
        ELSE IF p = B THEN b
        ELSE IF p = EPng THEN e
        ELSE IF p = <<D>> THEN d
        ELSE IF p = DCMd THEN cm
        ELSE ch]

\* The shapes of a source tree: which paths are files and which directories.
\* b is a directory when it exists, d a directory (with or without c.md) or
\* a file.
SrcShapes ==
    { ShapeOf(ah, am, b, e, dc[1], dc[2], "none") :
        ah \in {"none", "file"}, am \in {"none", "file"}, b \in {"none", "dir"},
        e \in {"none", "file"},
        dc \in { <<"none", "none">>, <<"file", "none">>, <<"dir", "none">>,
                 <<"dir", "file">> } }

\* The shapes of a destination tree: "own" is a file with an inode of its own,
\* "link" a hard link to the source file at the same path
DstShapes ==
    { ShapeOf(ah, "none", b, e, dc[1], "none", dc[2]) :
        ah \in {"none", "own", "link"}, b \in {"none", "dir"},
        e \in {"none", "own", "link"},
        dc \in { <<"none", "none">>, <<"own", "none">>, <<"dir", "none">>,
                 <<"dir", "own">> } }

SrcTreeOf(s, k) ==
    [p \in Paths |-> IF k[p] = "file" THEN FileNode(SrcIno(s, p))
                     ELSE IF k[p] = "dir" THEN DirNode(SrcIno(s, p))
                     ELSE NoNode]

DstTreeOf(s, k) ==
    [p \in Paths |-> IF k[p] = "own" THEN FileNode(DstIno(s, p))
                     ELSE IF k[p] = "link" THEN FileNode(SrcIno(s, p))
                     ELSE IF k[p] = "dir" THEN DirNode(DstIno(s, p))
                     ELSE NoNode]

\* The inode table of trees of shapes ks (source) and kd (destination), per
\* site, where the source files in newer[s] were modified at time 3
InodesOf(ks, kd, newer) ==
    [i \in InoIds |->
        LET s == i[2]
            p == i[3]
        IN  IF i[1] = "src"
            THEN IF ks[s][p] = "file"
                 THEN Inode(IF p \in newer[s] THEN 3 ELSE 1, RawData(0))
                 ELSE IF ks[s][p] = "dir" THEN Inode(1, DirData)
                 ELSE Inode(0, NoData)
            ELSE IF kd[s][p] = "own" THEN Inode(2, OldData)
                 ELSE IF kd[s][p] = "dir" THEN Inode(2, DirData)
                 ELSE Inode(0, NoData)]

NoShape == [p \in Paths |-> "none"]

Snapshot == [src |-> src, dst |-> dst, ino |-> ino, tpl |-> tpl,
             ops |-> lastOp, prevExit |-> exit, prevTrace |-> trace]

InitTrees(ks, kd, newer) ==
    /\ \A s \in SiteIds : \A p \in Paths :
          /\ kd[s][p] = "link" => ks[s][p] = "file"
          /\ p \in newer[s] => ks[s][p] = "file"
    /\ src = [s \in SiteIds |-> SrcTreeOf(s, ks[s])]
    /\ dst = [s \in SiteIds |-> DstTreeOf(s, kd[s])]
    /\ ino = InodesOf(ks, kd, newer)
    /\ pc = "idle"
    /\ cur = 0
    /\ exit = "none"
    /\ events = <<>>
    /\ trace = <<>>
    /\ now = 3
    /\ runs = 0
    /\ ops = 0
    /\ lastOp = <<>>
    /\ pre = [src |-> [s \in SiteIds |-> SrcTreeOf(s, ks[s])],
              dst |-> [s \in SiteIds |-> DstTreeOf(s, kd[s])],
              ino |-> InodesOf(ks, kd, newer), tpl |-> <<>>,
              ops |-> <<>>, prevExit |-> "none", prevTrace |-> <<>>]

\* Every system call succeeds, or fails because the path does not exist
InitCommon(ks, kd, newer) == fault = NoFault /\ InitTrees(ks, kd, newer)

\* One site, any source tree, any destination tree
Init ==
    /\ sites = <<1>>
    /\ tpl = Tpl0
    /\ runCmd = BashC
    /\ \E k1 \in SrcShapes, k2 \in DstShapes :
       \E n \in SUBSET { p \in Paths : k1[p] = "file" /\ p # <<D>> } :
          InitCommon([s \in SiteIds |-> IF s = 1 THEN k1 ELSE NoShape],
                     [s \in SiteIds |-> IF s = 1 THEN k2 ELSE NoShape],
                     [s \in SiteIds |-> IF s = 1 THEN n ELSE {}])

(***************************************************************************)
(* main: for each site, build(site), which is clean(site) and then the     *)
(* walk of the source tree; log.Fatalf when build returns an error.        *)
(***************************************************************************)
\* The loop over the sites begun at the last site instead of the first
StartRunAtLastSite ==
    /\ pc = "idle"
    /\ runs < MaxRuns
    /\ runs' = runs + 1
    /\ now' = now + 1
    /\ pre' = Snapshot
    /\ lastOp' = <<>>
    /\ events' = <<>>
    /\ trace' = <<>>
    /\ IF Len(sites) = 0
       THEN pc' = "idle" /\ exit' = "ok" /\ cur' = 0
       ELSE pc' = "clean" /\ exit' = "none" /\ cur' = Len(sites)
    /\ UNCHANGED <<sites, src, dst, ino, tpl, runCmd, fault, ops>>

StartRun ==
    /\ pc = "idle"
    /\ runs < MaxRuns
    /\ runs' = runs + 1
    /\ now' = now + 1
    /\ pre' = Snapshot
    /\ lastOp' = <<>>
    /\ events' = <<>>
    /\ trace' = <<>>
    /\ IF Len(sites) = 0
       THEN pc' = "idle" /\ exit' = "ok" /\ cur' = 0
       ELSE pc' = "clean" /\ exit' = "none" /\ cur' = 1
    /\ UNCHANGED <<sites, src, dst, ino, tpl, runCmd, fault, ops>>

Step(s, name, r) ==
    [site |-> s, step |-> name, ret |-> r.ret, seen |-> r.seen, failed |-> r.failed]

\* config.clean(site), called by build, which drops what it returns
Cleaned(s, r) ==
    /\ dst' = [dst EXCEPT ![s] = r.dst]
    /\ ino' = r.ino
    /\ events' = events \o r.ev
    /\ trace' = Append(trace, Step(s, "clean", r))
    /\ IF r.ret = "panic"
       THEN pc' = "idle" /\ exit' = "panic"
       ELSE pc' = "walk" /\ exit' = exit

Clean ==
    /\ pc = "clean"
    /\ Cleaned(sites[cur], CleanOf(sites[cur]))
    /\ UNCHANGED <<sites, src, tpl, runCmd, fault, cur, now, runs, ops, pre, lastOp>>

\* filepath.WalkDir(site.SrcRoot, ...) of build, and main's test of its result
Walked(s, r) ==
    /\ dst' = [dst EXCEPT ![s] = r.dst]
    /\ ino' = r.ino
    /\ events' = events \o r.ev
    /\ trace' = Append(trace, Step(s, "walk", r))
    /\ IF r.ret = "panic" THEN pc' = "idle" /\ exit' = "panic" /\ cur' = cur
       ELSE IF r.ret = "err" THEN pc' = "idle" /\ exit' = "fatal" /\ cur' = cur
       ELSE IF cur < Len(sites) THEN pc' = "clean" /\ exit' = exit /\ cur' = cur + 1
       ELSE pc' = "idle" /\ exit' = "ok" /\ cur' = cur

Walk ==
    /\ pc = "walk"
    /\ Walked(sites[cur], WalkOf(sites[cur]))
    /\ UNCHANGED <<sites, src, tpl, runCmd, fault, now, runs, ops, pre, lastOp>>

(***************************************************************************)
(* What the user does between two runs.                                    *)
(***************************************************************************)
UserOp(name, s, p) == [op |-> name, site |-> s, path |-> p]

CanChange == pc = "idle" /\ runs >= 1 /\ runs < MaxRuns /\ ops < MaxOps

Changed(o) ==
    /\ ops' = ops + 1
    /\ now' = now + 1
    /\ lastOp' = Append(lastOp, o)
    /\ UNCHANGED <<sites, runCmd, fault, pc, cur, exit, events, trace, runs, pre>>

\* rm -r of a source entry
RemoveSrc ==
    /\ CanChange
    /\ \E s \in SiteIds, p \in Paths \ {Root} :
          /\ src[s][p].kind # "none"
          /\ src' = [src EXCEPT ![s] = RemoveAll(src[s], p)]
          /\ Changed(UserOp(IF src[s][p].kind = "dir" THEN "rmdir" ELSE "rm", s, p))
    /\ UNCHANGED <<dst, ino, tpl>>

\* A source file is modified in place: same inode, new content, new time
ModifySrc ==
    /\ CanChange
    /\ \E s \in SiteIds, p \in Paths :
          /\ src[s][p].kind = "file"
          /\ ino' = [ino EXCEPT ![src[s][p].ino] =
                        Inode(now + 1, RawData(ino[src[s][p].ino].data.ver + 1))]
          /\ Changed(UserOp("modify", s, p))
    /\ UNCHANGED <<src, dst, tpl>>

\* The template file is modified
ModifyTpl ==
    /\ CanChange
    /\ tpl' = IF tpl = Tpl1 THEN Tpl0 ELSE Tpl1
    /\ Changed(UserOp("template", 0, Root))
    /\ UNCHANGED <<src, dst, ino>>

\* A destination file is replaced by a new file (another inode)
ReplaceDst ==
    /\ CanChange
    /\ \E s \in SiteIds, p \in Paths :
          /\ dst[s][p].kind = "file"
          /\ dst[s][p].ino # DstIno(s, p)
          /\ dst' = [dst EXCEPT ![s][p] = FileNode(DstIno(s, p))]
          /\ ino' = [ino EXCEPT ![DstIno(s, p)] = Inode(now + 1, OldData)]
          /\ Changed(UserOp("replace", s, p))
    /\ UNCHANGED <<src, tpl>>

Next == StartRun \/ Clean \/ Walk \/ RemoveSrc \/ ModifySrc \/ ModifyTpl \/ ReplaceDst

Spec == Init /\ [][Next]_vars

(***************************************************************************)
(* A second set of initial states, for buildPage: one site with the page   *)
(* a.md and the resource e.png, an empty destination tree, any template of *)
(* at most MaxTplLines lines, and a RunCmd of 0 to 3 elements.             *)
(***************************************************************************)
\* The lines a template is made of: text, an empty line, an opening marker
\* followed by the command c, an indented opening marker followed by the
\* failing command f, a closing marker, an indented closing marker
TplLines ==
    { <<"x">>, <<>>, <<"%{", "c">>, <<" ", "%{", "f">>, <<"}%">>, <<" ", "}%">> }

RECURSIVE JoinLines(_)
JoinLines(ls) ==
    IF ls = <<>> THEN <<>> ELSE Head(ls) \o <<"NL">> \o JoinLines(Tail(ls))

Templates ==
    { JoinLines(ls) : ls \in UNION { [1..n -> TplLines] : n \in 0..MaxTplLines } }

RunCmds == { <<>>, << <<"sh">> >>, BashC, << <<"env">>, <<"bash">>, <<"-c">> >> }

OnePage == ShapeOf("none", "file", "none", "file", "none", "none", "none")

NoPages == ShapeOf("none", "none", "none", "none", "none", "none", "none")

InitTpl ==
    /\ sites = <<1>>
    /\ tpl \in Templates
    /\ runCmd \in RunCmds
    /\ InitCommon([s \in SiteIds |-> IF s = 1 THEN OnePage ELSE NoShape],
                  [s \in SiteIds |-> IF s = 1 THEN NoPages ELSE NoShape],
                  [s \in SiteIds |-> {}])

SpecTpl == InitTpl /\ [][Next]_vars

(***************************************************************************)
(* A third set of initial states, for I/O errors: one site, any source     *)
(* tree, one of three destination trees, and at most one system call (an   *)
(* operation on a path) that fails with an error other than "does not      *)
(* exist" every time it is made.                                           *)
(***************************************************************************)
FaultOps == {"stat_src", "stat_dst", "mkdir", "write", "link", "remove", "removeall"}

Faults ==
    {NoFault, [op |-> "readtpl", path |-> Root]}
        \cup { [op |-> o, path |-> p] : o \in FaultOps, p \in Paths \ {Root} }

\* An empty destination; pages and a resource of an earlier build; a stale
\* directory and a hard link
FaultDstShapes ==
    { NoPages,
      ShapeOf("own", "none", "none", "own", "dir", "none", "own"),
      ShapeOf("none", "none", "dir", "link", "none", "none", "none") }

InitFault ==
    /\ sites = <<1>>
    /\ tpl = Tpl0
    /\ runCmd = BashC
    /\ \E k1 \in SrcShapes, k2 \in FaultDstShapes, f \in Faults :
       \E n \in { {}, { p \in Paths : k1[p] = "file" /\ p # <<D>> } } :
          /\ fault = f
          /\ InitTrees([s \in SiteIds |-> IF s = 1 THEN k1 ELSE NoShape],
                       [s \in SiteIds |-> IF s = 1 THEN k2 ELSE NoShape],
                       [s \in SiteIds |-> IF s = 1 THEN n ELSE {}])

SpecFault == InitFault /\ [][Next]_vars

(***************************************************************************)
(* A fourth set of initial states, for the order of the work: two sites,   *)
(* in either configuration order, each with one of four source trees and   *)
(* one of four destination trees.                                          *)
(***************************************************************************)
\* A page and a resource; nothing; a directory with a page; a resource .html
SitesSrcShapes ==
    { OnePage,
      NoPages,
      ShapeOf("none", "none", "none", "none", "dir", "file", "none"),
      ShapeOf("file", "none", "none", "none", "none", "none", "none") }

\* Nothing; two stale directories; a page and a file of an earlier build; a
\* stale directory and a file where the source may have a directory
SitesDstShapes ==
    { NoPages,
      ShapeOf("none", "none", "dir", "none", "dir", "none", "none"),
      ShapeOf("own", "none", "none", "own", "none", "none", "none"),
      ShapeOf("none", "none", "dir", "none", "own", "none", "none") }

InitSites ==
    /\ sites \in { <<1, 2>>, <<2, 1>> }
    /\ tpl = Tpl0
    /\ runCmd = BashC
    /\ \E ks \in [SiteIds -> SitesSrcShapes], kd \in [SiteIds -> SitesDstShapes] :
          InitCommon(ks, kd, [s \in SiteIds |-> {}])

SpecSites == InitSites /\ [][Next]_vars

(***************************************************************************)
(* What the claims speak of.                                               *)
(***************************************************************************)
SiteSet == { sites[i] : i \in 1..Len(sites) }

Entries1 == Paths \ {Root}

IsContent(tree, p) == tree[p].kind = "file" /\ Ext(p) = BuilderExt

IsResource(tree, p) == tree[p].kind = "file" /\ Ext(p) # BuilderExt

\* The destination path that mirrors source entry p
Mapped(tree, p) == IF IsContent(tree, p) THEN WithExt(p, HtmlExt) ELSE p

\* The number of printed lines of kind k for destination path q
NumEvents(k, q) ==
    Cardinality({ i \in 1..Len(events) : events[i].kind = k /\ events[i].path = q })

AllNil(tr) == \A i \in 1..Len(tr) : tr[i].ret = "nil"

\* The last run went through every site, build returned nil each time, and
\* the user has changed nothing since
RunOk == pc = "idle" /\ exit = "ok" /\ runs >= 1 /\ lastOp = <<>>

\* The last run and the one before it went through, with nothing changed by
\* the user in between
SecondRunOk == RunOk /\ runs >= 2 /\ pre.prevExit = "ok"

\* The first step of a run, clean of the first site, has just been made
AfterFirstClean == Len(trace) = 1 /\ trace[1].step = "clean"

Mirrors(s) ==
    /\ \A p \in Entries1 : src[s][p].kind = "dir" => dst[s][p].kind = "dir"
    /\ \A p \in Entries1 : IsContent(src[s], p) => dst[s][WithExt(p, HtmlExt)].kind = "file"
    /\ \A p \in Entries1 : IsResource(src[s], p) => dst[s][p].kind # "none"
    /\ \A q \in Entries1 :
          dst[s][q].kind # "none" =>
             \E p \in Entries1 : src[s][p].kind # "none" /\ q = Mapped(src[s], p)

\* C1: after a build that returned without error, from any source tree and any
\* prior destination tree, the destination tree mirrors the source tree: a
\* directory for each directory, an .html file for each content file, an entry
\* of the same name for each other file, and nothing else.
C1_DestinationMirrorsSource == RunOk => \A s \in SiteSet : Mirrors(s)

\* C2: a second build in succession, with no change in between and every step
\* of both runs returning nil, prints no "+" and no "^" line.
C2_SecondBuildPrintsNothing ==
    (SecondRunOk /\ pre.ops = <<>> /\ AllNil(trace) /\ AllNil(pre.prevTrace))
        => \A i \in 1..Len(events) : events[i].kind \notin {"+", "^"}

\* The destination paths clean removed from the tree the run started with
Deleted(s) == { q \in Entries1 : pre.dst[s][q].kind # "none" /\ dst[s][q].kind = "none" }

\* C3: from the destination tree a successful build produced (a build whose
\* steps all returned nil), after the user removed one source content file,
\* clean deletes the .html file that content file maps to and nothing else.
C3_CleanDeletesExactlyTheMappedFile ==
    \A p \in Entries1 :
        (/\ AfterFirstClean
         /\ pre.prevExit = "ok"
         /\ AllNil(pre.prevTrace)
         /\ pre.ops = << UserOp("rm", sites[1], p) >>
         /\ Ext(p) = BuilderExt)
            => Deleted(sites[1]) = { WithExt(p, HtmlExt) }

\* C4: after a build that returned without error, from any source tree and any
\* prior destination tree, every source resource has a destination entry of
\* the same path with the same inode.
C4_ResourcesAreHardLinks ==
    RunOk => \A s \in SiteSet : \A p \in Entries1 :
                IsResource(src[s], p) =>
                    dst[s][p].kind = "file" /\ dst[s][p].ino = src[s][p].ino

\* The expansion of the template for content file p of site s, as buildPage
\* writes it
PageOf(s, p) ==
    PageData(Expand(tpl, runCmd, CmdEnv(s, p, WithExt(p, HtmlExt)),
                    ino[src[s][p].ino].data.ver).items)

EventsFor(q) == { i \in 1..Len(events) : events[i].path = q }

SrcLater(s, p, q) ==
    pre.ino[pre.src[s][p].ino].mtime > pre.ino[pre.dst[s][q].ino].mtime

Rebuilt(s, p, q) ==
    /\ NumEvents("^", q) = 1
    /\ Cardinality(EventsFor(q)) = 1
    /\ dst[s][q].kind = "file"
    /\ ino[dst[s][q].ino].data = PageOf(s, p)

Untouched(s, q) ==
    /\ EventsFor(q) = {}
    /\ dst[s][q] = pre.dst[s][q]
    /\ ino[dst[s][q].ino] = pre.ino[dst[s][q].ino]

\* C5: for a source content file whose destination file exists when the build
\* starts, a build that returns without error prints exactly one "^" line for
\* it and leaves the new expansion in the destination file when the source
\* was modified strictly later than the destination; it prints nothing for it
\* and leaves the destination file as it was otherwise.
C5_StalePagesAreRebuilt ==
    RunOk => \A s \in SiteSet : \A p \in Entries1 :
                (IsContent(pre.src[s], p) /\ pre.dst[s][WithExt(p, HtmlExt)].kind = "file")
                    => IF SrcLater(s, p, WithExt(p, HtmlExt))
                       THEN Rebuilt(s, p, WithExt(p, HtmlExt))
                       ELSE Untouched(s, WithExt(p, HtmlExt))

\* C6: when the template was modified after a successful build and nothing
\* else changed, the next build prints one "^" line for every content file.
C6_TemplateChangeRebuildsAll ==
    (SecondRunOk /\ pre.ops = << UserOp("template", 0, Root) >>)
        => \A s \in SiteSet : \A p \in Entries1 :
              IsContent(src[s], p) => NumEvents("^", WithExt(p, HtmlExt)) = 1

\* C7: a step (clean or the build walk) that returns an error is the last step
\* of the run: the walk is not made after a clean that failed, and no later
\* site is processed.
C7_ErrorEndsTheRun ==
    \A i \in 1..Len(trace) : trace[i].ret # "nil" => i = Len(trace)

PagePaths(s) == { q \in Entries1 : dst[s][q].kind = "file" /\ ino[dst[s][q].ino].data.kind = "page" }

Spawned(s, q) ==
    { it \in { ino[dst[s][q].ino].data.body[i] : i \in 1..Len(ino[dst[s][q].ino].data.body) } :
        it.t \in {"out", "err"} }

\* C8: for a RunCmd of n >= 1 elements, the process spawned for a command
\* block has the argument vector RunCmd followed by the command body as the
\* one last argument.
C8_ArgvIsRunCmdThenBody ==
    Len(runCmd) >= 1 =>
        \A s \in SiteSet : \A q \in PagePaths(s) : \A it \in Spawned(s, q) :
            it.argv = Append(runCmd, it.argv[Len(it.argv)])

\* The first position of the line that holds position i
RECURSIVE LineStart(_, _)
LineStart(t, i) == IF AtLineStart(t, i) THEN i ELSE LineStart(t, i - 1)

\* A block as the claim has it: it starts with the line whose first content
\* after blanks is "%{" and ends with the "}%" that closes it
BlockAt(t, i) ==
    /\ MatchAt(t, i).ok
    /\ LineStart(t, MatchAt(t, i).open) = i

BlockFrom(t, pos) ==
    IF \E i \in pos..Len(t) : BlockAt(t, i)
    THEN Min({ i \in pos..Len(t) : BlockAt(t, i) })
    ELSE 0

RECURSIVE BlocksReplaced(_, _, _, _, _)
BlocksReplacedAt(t, pos, rc, env, input, i, close) ==
    IF i = 0 THEN Lits(t, pos, Len(t))
    ELSE Lits(t, pos, i - 1)
         \o << RunOutput(Append(rc, SubSeq(t, MatchAt(t, i).open + 1, close - 1)), env, input) >>
         \o BlocksReplaced(t, close + 1, rc, env, input)

BlocksReplacedFrom(t, pos, rc, env, input, i) ==
    BlocksReplacedAt(t, pos, rc, env, input, i, IF i = 0 THEN 0 ELSE MatchAt(t, i).close)

\* The template with each block replaced by the output (or the error) of its
\* command and every token outside the blocks kept
BlocksReplaced(t, pos, rc, env, input) ==
    BlocksReplacedFrom(t, pos, rc, env, input, BlockFrom(t, pos))

\* C9: a build writes, for every content file, the template with each command
\* block replaced by the output of its own command (the error text when the
\* command fails) and all text outside the blocks unchanged.  Stated for a
\* RunCmd of two elements, for which the argument vector is RunCmd followed
\* by the body.
C9_BlocksReplacedRestUnchanged ==
    (pc = "idle" /\ runs >= 1 /\ Len(runCmd) = 2) =>
        /\ exit = "ok"
        /\ \A s \in SiteSet : \A p \in Entries1 :
              IsContent(src[s], p) =>
                 /\ dst[s][WithExt(p, HtmlExt)].kind = "file"
                 /\ ino[dst[s][WithExt(p, HtmlExt)].ino].data.body =
                       BlocksReplaced(tpl, 1, runCmd, CmdEnv(s, p, WithExt(p, HtmlExt)),
                                      ino[src[s][p].ino].data.ver)

\* q lies strictly below p
Below(q, p) == Under(q, p) /\ q # p

\* C10: when clean has run, every destination directory whose source path is
\* missing or is no directory is gone with all it held, one "-*" line was
\* printed for it, and no line for any entry below it.
C10_StaleDirectoriesArePruned ==
    AfterFirstClean =>
        \A q \in Entries1 :
            (pre.dst[sites[1]][q].kind = "dir" /\ src[sites[1]][q].kind # "dir")
                => /\ \A r \in Entries1 : Under(r, q) => dst[sites[1]][r].kind = "none"
                   /\ NumEvents("-*", q) = 1
                   /\ Cardinality(EventsFor(q)) = 1
                   /\ \A r \in Entries1 : Below(r, q) => EventsFor(r) = {}

\* C11: when, after a successful build, the user modified one source resource
\* in place (same inode, later modification time) and build ran again, the
\* run printed no line for the resource, its destination entry is the one the
\* run started with, and that entry has the inode of the source file.
C11_ModifiedResourceIsLeftAlone ==
    \A s \in SiteSet : \A p \in Entries1 :
        (/\ SecondRunOk
         /\ AllNil(pre.prevTrace)
         /\ pre.ops = << UserOp("modify", s, p) >>
         /\ IsResource(src[s], p))
            => /\ EventsFor(p) = {}
               /\ dst[s][p] = pre.dst[s][p]
               /\ dst[s][p].kind = "file"
               /\ dst[s][p].ino = src[s][p].ino

\* The source entry clean looks up for destination entry q of kind k
\* is there and of the same kind (directory or not)
HasSource(s, q) ==
    IF dst[s][q].kind = "dir" THEN src[s][q].kind = "dir"
    ELSE src[s][CleanEqPath(q)].kind = "file"

\* C12: when a clean pass has ended, no destination entry remains whose mapped
\* source path is absent or of another kind: what clean deleted kept no other
\* entry from being examined.
C12_CleanLeavesNoStaleEntry ==
    AfterFirstClean =>
        \A q \in Entries1 : dst[sites[1]][q].kind # "none" => HasSource(sites[1], q)

\* The non-directory destination entries the clean pass was called for
ExaminedFiles ==
    { q \in Entries1 :
        /\ pre.dst[sites[1]][q].kind = "file"
        /\ \E i \in 1..Len(trace[1].seen) : trace[1].seen[i] = q }

SourceOf(q) == src[sites[1]][CleanEqPath(q)]

Gone(q) == dst[sites[1]][q].kind = "none"

AfterWalk == Len(trace) >= 1 /\ trace[Len(trace)].step = "walk"

LastStep == trace[Len(trace)]

\* The "+" and "^" lines the build walk of site s printed while at source entry p
BuildEvents(s, p) ==
    { i \in 1..Len(events) :
        /\ events[i].site = s
        /\ events[i].phase = "build"
        /\ events[i].entry = p }

\* C14: when a system call of the build walk failed (a stat for another reason
\* than absence, a mkdir, the read of the template, the write of the page, a
\* remove or a link), the walk returned an error, the entry it was at is the
\* last entry it was called for, and no "+" or "^" line was printed for that
\* entry.
C14_WalkErrorAbortsBuild ==
    AfterWalk =>
        \A i \in 1..Len(LastStep.failed) :
            /\ LastStep.ret = "err"
            /\ LastStep.failed[i].entry = LastStep.seen[Len(LastStep.seen)]
            /\ BuildEvents(LastStep.site, LastStep.failed[i].entry) = {}

\* C15: when, in a clean pass, the lookup of the mapped source path of a
\* destination entry failed for another reason than absence, clean returned
\* an error to its caller (the process did not die, the entry was not taken
\* as matching) and the entry was not deleted.
C15_CleanLookupErrorIsReturned ==
    AfterFirstClean =>
        \A i \in 1..Len(trace[1].failed) :
            trace[1].failed[i].op = "stat_src"
                => /\ trace[1].ret = "err"
                   /\ dst[sites[1]][trace[1].failed[i].entry].kind # "none"

\* "%{" at j is the first content of its line, after blanks only
OpensAt(t, j) ==
    /\ t[j] = "%{"
    /\ \A h \in LineStart(t, j)..(j - 1) : t[h] = " "

\* "}%" at k stands at the very start of a line after the one of j
ClosesAtLineStart(t, j, k) == k > j /\ t[k] = "}%" /\ t[k - 1] = "NL"

\* "}%" at k is the first content, after blanks only, of a line after the one of j
ClosesAfterBlanks(t, j, k) ==
    /\ k > j
    /\ t[k] = "}%"
    /\ LineStart(t, k) > j
    /\ \A h \in LineStart(t, k)..(k - 1) : t[h] = " "

Closers(t, j, indented) ==
    { k \in (j + 1)..Len(t) :
        IF indented THEN ClosesAfterBlanks(t, j, k) ELSE ClosesAtLineStart(t, j, k) }

Openers(t, pos, indented) ==
    { j \in pos..Len(t) : OpensAt(t, j) /\ Closers(t, j, indented) # {} }

\* The command bodies of template t from position pos on, in order: each the
\* text between an opening marker and the marker that closes it
RECURSIVE Bodies(_, _, _)
BodiesAt(t, j, k, indented) ==
    << SubSeq(t, j + 1, k - 1) >> \o Bodies(t, k + 1, indented)

BodiesFrom(t, j, indented) == BodiesAt(t, j, Min(Closers(t, j, indented)), indented)

Bodies(t, pos, indented) ==
    IF Openers(t, pos, indented) = {} THEN <<>>
    ELSE BodiesFrom(t, Min(Openers(t, pos, indented)), indented)

IsCommand(it) == it.t \in {"out", "err"}

Commands(items) == SelectSeq(items, IsCommand)

LastOf(argv) == argv[Len(argv)]

\* The command bodies buildPage ran for the page at q, in order
BodiesRun(s, q) ==
    [i \in 1..Len(Commands(ino[dst[s][q].ino].data.body)) |->
        LastOf(Commands(ino[dst[s][q].ino].data.body)[i].argv)]

\* The pages the run that just ended wrote from the present template
PagesWritten(s) ==
    { q \in PagePaths(s) :
        /\ pc = "idle"
        /\ lastOp = <<>>
        /\ \E i \in 1..Len(events) :
              events[i].site = s /\ events[i].phase = "build" /\ events[i].path = q }

\* C16 (as the code has it): a block opened by a line whose first content
\* after blanks is "%{" is closed by the earliest later "}%" that stands at
\* the very start of a line; a "}%" that follows blanks on its line does not
\* close it.  The body is the text between the two markers.
C16_ClosedAtLineStartOnly ==
    \A s \in SiteSet : \A q \in PagesWritten(s) :
        BodiesRun(s, q) = Bodies(tpl, 1, FALSE)

\* C16 as claimed: the block is closed by the earliest later line whose first
\* content after blanks is "}%", with or without leading blanks.
C16_ClosedAfterBlanks ==
    \A s \in SiteSet : \A q \in PagesWritten(s) :
        BodiesRun(s, q) = Bodies(tpl, 1, TRUE)

\* C16 witness: a page was written from a template in which an indented "}%"
\* line comes between an opening marker and the "}%" at a line start that
\* closes it, and a command was run for it.
C16_Witness ==
    \E s \in SiteSet : \E q \in PagesWritten(s) :
        /\ Bodies(tpl, 1, FALSE) # Bodies(tpl, 1, TRUE)
        /\ Bodies(tpl, 1, FALSE) # <<>>
        /\ Bodies(tpl, 1, TRUE) # <<>>
        /\ BodiesRun(s, q) # <<>>

\* The step that comes i-th in a run: clean and then the walk of each site,
\* the sites in configuration order
NthStepName(i) == IF i % 2 = 1 THEN "clean" ELSE "walk"

NthStepSite(i) == sites[(i + 1) \div 2]

\* The position of site s in the configuration
SiteIndex(s) == CHOOSE k \in 1..Len(sites) : sites[k] = s

\* The rank of a printed line in the order of the work
EventRank(e) == 2 * SiteIndex(e.site) + (IF e.phase = "clean" THEN 0 ELSE 1)

\* Every change of the destination tree of s so far is a deletion
OnlyDeletions(s) ==
    \A q \in Paths : dst[s][q] = pre.dst[s][q] \/ dst[s][q].kind = "none"

\* C17: the steps of a run are clean and then the walk of each site, the
\* sites in configuration order; the lines are printed in that order; while
\* the run is at a site, the destination trees of the later sites are as the
\* run found them, and until the clean pass of a site has ended nothing was
\* created in its destination tree.
C17_CleanThenWalkSiteBySite ==
    /\ Len(trace) <= 2 * Len(sites)
    /\ \A i \in 1..Len(trace) :
          trace[i].step = NthStepName(i) /\ trace[i].site = NthStepSite(i)
    /\ \A i \in 1..Len(events) : \A j \in i..Len(events) :
          EventRank(events[i]) <= EventRank(events[j])
    /\ pc # "idle" =>
          /\ cur = (Len(trace) + 2) \div 2
          /\ \A k \in (cur + 1)..Len(sites) : dst[sites[k]] = pre.dst[sites[k]]
          /\ pc = "walk" => OnlyDeletions(sites[cur])
          /\ pc = "clean" => dst[sites[cur]] = pre.dst[sites[cur]]

\* C17 witness: a run went through two sites, and clean and the build walk
\* of each of them printed a line.
C17_Witness ==
    /\ Len(sites) = 2
    /\ Len(trace) = 4
    /\ \A k \in 1..2 : \A ph \in {"clean", "build"} :
          \E i \in 1..Len(events) :
              events[i].site = sites[k] /\ events[i].phase = ph

\* C18: during and after a run of build, as long as the user changed nothing,
\* the source tree of every site has the paths the run started with and every
\* source file has the content it had.
C18_SourceTreeIsNotModified ==
    (runs >= 1 /\ lastOp = <<>>) =>
        \A s \in SiteSet : \A p \in Paths :
            /\ src[s][p] = pre.src[s][p]
            /\ src[s][p].kind = "file" =>
                  ino[src[s][p].ino].data = pre.ino[src[s][p].ino].data

\* The destination path build gives source entry p of site s
BuildPathOf(s, p) == IF src[s][p].kind = "dir" THEN p ELSE BuildEqPath(p)

\* The source path clean looks up for destination entry q of site s
CleanPathOf(s, q) == IF dst[s][q].kind = "dir" THEN q ELSE CleanEqPath(q)

\* C19: after a build, for every source entry p (directory, content file or
\* resource of any extension) whose destination entry is there, the source
\* path clean looks up for that destination entry is p.
C19_PathMappingRoundTrip ==
    RunOk =>
        \A s \in SiteSet : \A p \in Entries1 :
            (src[s][p].kind # "none" /\ dst[s][BuildPathOf(s, p)].kind # "none")
                => CleanPathOf(s, BuildPathOf(s, p)) = p

====
